---- MODULE Spec2Model ----
(***************************************************************************)
(* A model of lakebook2md.py: LakebookConverter.run() and everything it    *)
(* calls.  The program is sequential; pc is the position inside run().     *)
(* The file system is part of the state: the scratch directory .laketmp    *)
(* (temp_exists, scratch), the output tree (output_base_exists, output).   *)
(* What the program reads from its environment (the path typed at the      *)
(* prompt, the content of an archive, of its manifest) is drawn with \E at *)
(* the step that reads it.                                                 *)
(***************************************************************************)
EXTENDS Naturals, Sequences, FiniteSets, TLC

VARIABLES
    pc,                 \* position in run()
    attempts,           \* get_user_input: invalid answers given so far
    mode,               \* input_type: "file" | "dir" ("none" before the prompt)
    nfiles,             \* len(lakebook_files); 1 in file mode; archives are 1..nfiles
    cur,                \* the archive being processed (index in lakebook_files)
    total_success,      \* process_directory: total_success
    dir_ret,            \* what process_directory returned ("none" | "False" | "True")
    output_base_exists, \* output/ exists
    temp_exists,        \* .laketmp exists
    scratch,            \* top-level entries of .laketmp, each tagged with its archive
    book_dir,           \* process_single_lakebook: book_dir (NoDir before extraction)
    toc,                \* process_single_lakebook: toc
    item,               \* index of the next toc item of the for loop
    success_count,      \* process_single_lakebook: success_count
    processed_files,    \* self.processed_files
    output,             \* output[a]: the folder output/<stem of archive a>
    error,              \* stage at which an exception left process_*, "none" if none
    hist,               \* per archive: what its tar file and its manifest turned out to be
    results,            \* per toc item of the current archive: what the loop did
    html_content,       \* convert_html_to_markdown: its argument
    markdown            \* convert_html_to_markdown: its result

vars == <<pc, attempts, mode, nfiles, cur, total_success, dir_ret,
          output_base_exists, temp_exists, scratch, book_dir, toc, item,
          success_count, processed_files, output, error, hist, results,
          html_content, markdown>>

\* ------------------------------------------------------------------ bounds
MaxArchives == 2    \* archives matched by glob("*.lakebook") in directory mode
MaxToc == 2         \* entries of one table of contents
MaxPrompts == 1     \* invalid answers before the user gives a usable path

Archives == 1..MaxArchives

\* ------------------------------------------------- what an archive can hold
\* tarfile.open raises ("badtar"); extraction yields only hidden directories and
\* plain files ("noroot"); extraction yields the book's root directory ("ok").
TarKinds == {"badtar", "noroot", "ok"}

\* $meta.json: absent; not JSON; its "meta" string not JSON; its "tocYml" string
\* not YAML; or all three parse.
ManifestKinds == {"missing", "badjson", "badmeta", "badyaml", "ok"}

NoDir == [arch |-> 0, name |-> << >>, dir |-> FALSE]

\* What an earlier, interrupted run may have left in .laketmp.
Stale == {[arch |-> 0, name |-> <<"old">>, dir |-> TRUE]}

\* The top-level entries tar.extractall leaves in .laketmp for archive a.
TopLevel(a, kind) ==
    CASE kind = "ok" ->
           {[arch |-> a, name |-> <<"book">>, dir |-> TRUE],
            [arch |-> a, name |-> <<".", "DS_Store">>, dir |-> FALSE]}
      [] kind = "noroot" ->
           {[arch |-> a, name |-> <<".", "hidden">>, dir |-> TRUE],
            [arch |-> a, name |-> <<"readme">>, dir |-> FALSE]}
      [] OTHER -> {}

\* Names and titles are strings, modelled as sequences of characters or of
\* unbroken runs of characters.
Titles == {<<"a", "/", "b">>}
Uuids == {<<"u1">>}
Urls == {"a", "b"}

\* title = doc_data.get("title", <placeholder>): the placeholder of line 78.
DefaultTitle == <<"untitled">>

\* A TOC entry is a record whose keys "uuid", "title" and "url" may be absent.
DocEntries ==
    LET withUrl == [type : {"DOC"}, url : Urls]
                   \cup [type : {"DOC"}, url : Urls, uuid : Uuids]
                   \cup [type : {"DOC"}, url : Urls, title : Titles]
                   \cup [type : {"DOC"}, url : Urls, uuid : Uuids, title : Titles]
    IN  withUrl \cup {[type |-> "DOC"]}

TocEntries == DocEntries \cup {[type |-> "TITLE"]}

RECURSIVE SeqsUpTo(_, _)
SeqsUpTo(S, n) ==
    IF n = 0 THEN {<< >>}
    ELSE LET shorter == SeqsUpTo(S, n - 1)
         IN  shorter \cup {Append(t, e) : t \in {u \in shorter : Len(u) = n - 1}, e \in S}

Tocs == SeqsUpTo(TocEntries, MaxToc)

\* What open(doc_file) and content["doc"]["body"] can find in an extracted book:
\* a.json holds doc.body; b.json is not there, or is JSON without doc.body.
PayloadOf(url) == IF url = "a" THEN {"ok"} ELSE {"missing", "nobody"}


\* ------------------------------------------------ convert_html_to_markdown
\* A string is a sequence of atoms: one whitespace character, or an unbroken run
\* of other characters.  An HTML source is a sequence of tokens: character data,
\* a start tag with its attributes (a sequence of <<name, value>>), an end tag.
Text(a) == [k |-> "text", s |-> a]
Open(t, attrs) == [k |-> "open", tag |-> t, attrs |-> attrs]
Close(t) == [k |-> "close", tag |-> t]

Whitespace == {" ", "\n", "\t"}

\* The elements html.parser's tree builder closes as soon as they open.
VoidTags == {"br", "img"}

\* A character reference in the source is the character in the tree.
Unescape(a) ==
    CASE a = "&lt;" -> "<"
      [] a = "&gt;" -> ">"
      [] a = "&amp;" -> "&"
      [] OTHER -> a

\* str(soup) writes the three characters back as references.
Escape(a) ==
    CASE a = "<" -> "&lt;"
      [] a = ">" -> "&gt;"
      [] a = "&" -> "&amp;"
      [] OTHER -> a

TextNode(str) == [text |-> str]
IsText(n) == "text" \in DOMAIN n

Root == [tag |-> "[document]", attrs |-> << >>, kids |-> << >>]

AddKid(stack, n) == [stack EXCEPT ![Len(stack)].kids = Append(@, n)]

\* BeautifulSoup.endData: the pending character data becomes one string; a string
\* of whitespace alone becomes a single newline or a single space.
EndData(stack, data) ==
    IF data = << >> THEN stack
    ELSE IF \A k \in DOMAIN data : data[k] \in Whitespace
    THEN AddKid(stack, TextNode(IF \E k \in DOMAIN data : data[k] = "\n"
                                 THEN <<"\n">> ELSE <<" ">>))
    ELSE AddKid(stack, TextNode(data))

PopTag(stack) == AddKid(SubSeq(stack, 1, Len(stack) - 1), stack[Len(stack)])

\* BeautifulSoup._popToTag: close the open elements down to the most recent
\* one of that name, inclusive; nothing if none is open.
RECURSIVE PopToTag(_, _)
PopToTag(stack, name) ==
    IF \A k \in 2..Len(stack) : stack[k].tag # name THEN stack
    ELSE IF stack[Len(stack)].tag = name THEN PopTag(stack)
    ELSE PopToTag(PopTag(stack), name)

RECURSIVE PopAll(_)
PopAll(stack) == IF Len(stack) = 1 THEN stack ELSE PopAll(PopTag(stack))

\* BeautifulSoup(html_content, "html.parser"): the children of the document.
RECURSIVE ParseFrom(_, _, _, _)
ParseFrom(tokens, k, stack, data) ==
    IF k > Len(tokens) THEN PopAll(EndData(stack, data))[1].kids
    ELSE LET t == tokens[k]
         IN  CASE t.k = "text" ->
                    ParseFrom(tokens, k + 1, stack, Append(data, Unescape(t.s)))
               [] t.k = "open" ->
                    LET st == EndData(stack, data)
                        el == [tag |-> t.tag, attrs |-> t.attrs, kids |-> << >>]
                    IN  IF t.tag \in VoidTags
                        THEN ParseFrom(tokens, k + 1, AddKid(st, el), << >>)
                        ELSE ParseFrom(tokens, k + 1, Append(st, el), << >>)
               [] OTHER ->
                    LET st == EndData(stack, data)
                    IN  IF t.tag \in VoidTags
                        THEN ParseFrom(tokens, k + 1, st, << >>)
                        ELSE ParseFrom(tokens, k + 1, PopToTag(st, t.tag), << >>)

Parse(tokens) == ParseFrom(tokens, 1, <<Root>>, << >>)

\* Tag.get_text(): the strings below a node, concatenated.
RECURSIVE get_text(_)
RECURSIVE kids_text(_, _)
get_text(n) == IF IsText(n) THEN n.text ELSE kids_text(n.kids, 1)
kids_text(kids, k) ==
    IF k > Len(kids) THEN << >> ELSE get_text(kids[k]) \o kids_text(kids, k + 1)

\* Tag.get(name, default): the last attribute of that name wins.
Attr(n, name, default) ==
    LET at == {k \in DOMAIN n.attrs : n.attrs[k][1] = name}
    IN  IF at = {} THEN default
        ELSE n.attrs[CHOOSE k \in at : \A j \in at : j <= k][2]

\* Lines 52-53: "\n\n" is inserted after every p and every br.
RECURSIVE insert_breaks(_, _)
insert_breaks(kids, k) ==
    IF k > Len(kids) THEN << >>
    ELSE LET n == kids[k]
             m == IF IsText(n) THEN n ELSE [n EXCEPT !.kids = insert_breaks(@, 1)]
         IN  (IF ~IsText(n) /\ n.tag \in {"p", "br"}
              THEN <<m, TextNode(<<"\n", "\n">>)>> ELSE <<m>>)
             \o insert_breaks(kids, k + 1)

\* Lines 55-59: tag.string = mark + tag.get_text() + mark, for every element of
\* that name: its children are replaced by the one string, the element stays.
RECURSIVE wrap_text(_, _, _, _)
wrap_text(kids, k, name, mark) ==
    IF k > Len(kids) THEN << >>
    ELSE LET n == kids[k]
             m == IF IsText(n) THEN n
                  ELSE IF n.tag = name
                  THEN [n EXCEPT !.kids = <<TextNode(<<mark>> \o get_text(n) \o <<mark>>)>>]
                  ELSE [n EXCEPT !.kids = wrap_text(@, 1, name, mark)]
         IN  <<m>> \o wrap_text(kids, k + 1, name, mark)

\* Lines 61-64: every img is replaced by the string ![alt](src).
RECURSIVE replace_img(_, _)
replace_img(kids, k) ==
    IF k > Len(kids) THEN << >>
    ELSE LET n == kids[k]
             m == IF IsText(n) THEN n
                  ELSE IF n.tag = "img"
                  THEN TextNode(<<"![">> \o Attr(n, "alt", <<"image">>) \o <<"](">>
                                \o Attr(n, "src", << >>) \o <<")">>)
                  ELSE [n EXCEPT !.kids = replace_img(@, 1)]
         IN  <<m>> \o replace_img(kids, k + 1)

\* Lines 66-69: every a is replaced by the string [text](href).
RECURSIVE replace_a(_, _)
replace_a(kids, k) ==
    IF k > Len(kids) THEN << >>
    ELSE LET n == kids[k]
             m == IF IsText(n) THEN n
                  ELSE IF n.tag = "a"
                  THEN TextNode(<<"[">> \o get_text(n) \o <<"](">>
                                \o Attr(n, "href", << >>) \o <<")">>)
                  ELSE [n EXCEPT !.kids = replace_a(@, 1)]
         IN  <<m>> \o replace_a(kids, k + 1)

EscapeAll(str) == [k \in DOMAIN str |-> Escape(str[k])]

RECURSIVE attrs_str(_, _)
attrs_str(attrs, k) ==
    IF k > Len(attrs) THEN << >>
    ELSE <<" ", attrs[k][1], "=\"">> \o EscapeAll(attrs[k][2]) \o <<"\"">>
         \o attrs_str(attrs, k + 1)

\* Line 71, str(soup): the elements left in the tree are written as tags.
RECURSIVE decode(_, _)
decode(kids, k) ==
    IF k > Len(kids) THEN << >>
    ELSE LET n == kids[k]
         IN  (IF IsText(n) THEN EscapeAll(n.text)
              ELSE IF n.tag \in VoidTags
              THEN <<"<", n.tag>> \o attrs_str(n.attrs, 1) \o <<"/>">>
              ELSE <<"<", n.tag>> \o attrs_str(n.attrs, 1) \o <<">">>
                   \o decode(n.kids, 1) \o <<"</", n.tag, ">">>)
             \o decode(kids, k + 1)

RunEnd(str, k, c) ==
    CHOOSE j \in k..Len(str) :
        /\ \A h \in k..j : str[h] = c
        /\ j = Len(str) \/ str[j + 1] # c

\* re.sub of a run of at least min characters c by keep of them.
RECURSIVE collapse(_, _, _, _, _)
collapse(str, k, c, min, keep) ==
    IF k > Len(str) THEN << >>
    ELSE IF str[k] # c THEN <<str[k]>> \o collapse(str, k + 1, c, min, keep)
    ELSE LET j == RunEnd(str, k, c)
             n == j - k + 1
         IN  [h \in 1..(IF n >= min THEN keep ELSE n) |-> c]
             \o collapse(str, j + 1, c, min, keep)

\* str.strip()
strip(str) ==
    LET ink == {k \in DOMAIN str : str[k] \notin Whitespace}
    IN  IF ink = {} THEN << >>
        ELSE SubSeq(str, CHOOSE k \in ink : \A j \in ink : k <= j,
                         CHOOSE k \in ink : \A j \in ink : j <= k)

convert_html_to_markdown(html) ==
    LET soup1 == insert_breaks(Parse(html), 1)
        soup2 == wrap_text(soup1, 1, "strong", "**")
        soup3 == wrap_text(soup2, 1, "em", "*")
        soup4 == replace_img(soup3, 1)
        soup5 == replace_a(soup4, 1)
        md1 == decode(soup5, 1)
        md2 == collapse(md1, 1, "\n", 3, 2)
        md3 == collapse(md2, 1, " ", 2, 1)
    IN  strip(md3)

\* <p>Hello <strong>world</strong></p><a href="http://x">link</a><img src="http://y/z.png">
ScenarioHtml ==
    <<Open("p", << >>), Text("Hello"), Text(" "), Open("strong", << >>), Text("world"),
      Close("strong"), Close("p"), Open("a", <<<<"href", <<"http://x">>>>>>),
      Text("link"), Close("a"), Open("img", <<<<"src", <<"http://y/z.png">>>>>>)>>

\* doc.body of the payload a.json, and what line 91 makes of it.
PayloadBody == ScenarioHtml
Transcoded == convert_html_to_markdown(PayloadBody)

\* ------------------------------------------------------------ process_doc
\* doc_file.name of line 79: "<url>.json".
doc_file_name(e) == <<e.url, ".json">>

\* doc_id = doc_data.get("uuid", doc_file.name)
doc_id(e) == IF "uuid" \in DOMAIN e THEN e.uuid ELSE doc_file_name(e)

doc_title(e) == IF "title" \in DOMAIN e THEN e.title ELSE DefaultTitle

UnsafeChars == {"\\", "/", "*", "?", ":", "\"", "<", ">", "|"}

\* re.sub(r'[\\/*?:"<>|]', '_', title)
safe_title(t) == [k \in DOMAIN t |-> IF t[k] \in UnsafeChars THEN "_" ELSE t[k]]

\* The same without the try of line 86: the exception leaves process_doc.
payload_outcome_no_try(p) == IF p = "ok" THEN "converted" ELSE "raised"

\* json.load + content["doc"]["body"] inside the try of lines 86-107: every
\* exception is caught and process_doc returns False.
payload_outcome(p) == IF p = "ok" THEN "converted" ELSE "failed"

\* What one call of process_doc does with entry e, given self.processed_files
\* and what it finds at doc_file (p).
doc_outcome(e, seen, p) ==
    IF "url" \notin DOMAIN e THEN "raised"
    ELSE IF doc_id(e) \in seen THEN "skipped"
    ELSE payload_outcome(p)

\* self.processed_files after the call.
processed_after(e, seen) ==
    IF "url" \notin DOMAIN e THEN seen ELSE seen \cup {doc_id(e)}

\* The output folder after output_file is unlinked (if there) and written.
write_file(files, e, md) ==
    {f \in files : f.name # safe_title(doc_title(e))}
        \cup {[name |-> safe_title(doc_title(e)), title |-> doc_title(e), body |-> md]}


Count(seq, v) == Cardinality({k \in DOMAIN seq : seq[k] = v})

\* ------------------------------------------------------ extract_lakebook
\* The directory made on first use and never cleared.
reset_scratch_first_use(s) == s

\* Lines 36-39: rmtree if there, then mkdir: the directory is empty.
reset_scratch(s) == {}

\* Lines 43-45: the items that are directories whose name does not start with '.'.
Roots(s) == {x \in s : x.dir /\ Head(x.name) # "."}

\* ------------------------------------------------ process_single_lakebook
\* Lines 116-123: a missing manifest returns False, a parse error propagates.
manifest_outcome(m) ==
    CASE m = "missing" -> "return"
      [] m = "ok" -> "parsed"
      [] OTHER -> "raised"

\* mkdir moved above the parses of lines 120-123.
folder_before_parse(m, folder) ==
    IF manifest_outcome(m) # "return" THEN [folder EXCEPT !.exists = TRUE] ELSE folder

\* Line 126 is reached only once the three parses of lines 120-123 succeeded.
folder_after_manifest(m, folder) ==
    IF manifest_outcome(m) = "parsed" THEN [folder EXCEPT !.exists = TRUE] ELSE folder

\* ---------------------------------------------------------------- clean_up
\* clean_up that leaves the directory.
temp_kept(e) == e

\* Lines 161-162: rmtree of the directory that exists.
temp_after_clean_up(e) == FALSE

\* -------------------------------------------------------------------- Init
NoHist == [tar |-> "unread", manifest |-> "unread"]

Init ==
    /\ pc = "run"
    /\ attempts = 0
    /\ mode = "none"
    /\ nfiles = 0
    /\ cur = 0
    /\ total_success = 0
    /\ dir_ret = "none"
    /\ output_base_exists = FALSE
    /\ temp_exists \in BOOLEAN
    /\ scratch = IF temp_exists THEN Stale ELSE {}
    /\ book_dir = NoDir
    /\ toc = << >>
    /\ item = 0
    /\ success_count = 0
    /\ processed_files = {}
    /\ output = [a \in Archives |-> [exists |-> FALSE, files |-> {}]]
    /\ error = "none"
    /\ hist = [a \in Archives |-> NoHist]
    /\ results = << >>
    /\ html_content = << >>
    /\ markdown = << >>

html_vars == <<html_content, markdown>>

\* ---------------------------------------------------------------- actions
\* run(), line 166.
run_begin ==
    /\ pc = "run"
    /\ output_base_exists' = TRUE
    /\ pc' = "input"
    /\ UNCHANGED <<attempts, mode, nfiles, cur, total_success, dir_ret, temp_exists,
                   scratch, book_dir, toc, item, success_count, processed_files,
                   output, error, hist, results, html_vars>>

\* get_user_input(): one answer at the prompt.  An answer that is neither an
\* existing .lakebook file nor a directory is asked again; input() itself may
\* raise (end of input), which leaves run()'s try block.
get_user_input ==
    /\ pc = "input"
    /\ \/ /\ attempts < MaxPrompts
          /\ attempts' = attempts + 1
          /\ UNCHANGED <<pc, mode, nfiles, error>>
       \/ /\ mode' = "file"
          /\ nfiles' = 1
          /\ pc' = "dispatch"
          /\ attempts' = 0
          /\ UNCHANGED error
       \/ /\ mode' = "dir"
          /\ nfiles' \in 0..MaxArchives
          /\ pc' = "dispatch"
          /\ attempts' = 0
          /\ UNCHANGED error
       \/ /\ error' = "input"
          /\ pc' = "except"
          /\ attempts' = 0
          /\ UNCHANGED <<mode, nfiles>>
    /\ UNCHANGED <<cur, total_success, dir_ret, output_base_exists, temp_exists,
                   scratch, book_dir, toc, item, success_count, processed_files,
                   output, hist, results, html_vars>>

\* run(), lines 169-170: process_single_lakebook(self.input_path).
run_file ==
    /\ pc = "dispatch"
    /\ mode = "file"
    /\ cur' = 1
    /\ pc' = "extract"
    /\ UNCHANGED <<attempts, mode, nfiles, total_success, dir_ret, output_base_exists,
                   temp_exists, scratch, book_dir, toc, item, success_count,
                   processed_files, output, error, hist, results, html_vars>>

\* process_directory(), lines 142-152: up to the first iteration of the loop.
process_directory ==
    /\ pc = "dispatch"
    /\ mode = "dir"
    /\ IF nfiles = 0
       THEN /\ dir_ret' = "False"
            /\ pc' = "finally"
            /\ UNCHANGED <<cur, total_success>>
       ELSE /\ total_success' = 0
            /\ cur' = 1
            /\ pc' = "extract"
            /\ UNCHANGED dir_ret
    /\ UNCHANGED <<attempts, mode, nfiles, output_base_exists, temp_exists, scratch,
                   book_dir, toc, item, success_count, processed_files, output,
                   error, hist, results, html_vars>>

\* process_single_lakebook returns r ("False" | "True") for archive cur: back in
\* run() (file mode) or in the loop of process_directory, lines 152-157.
Return(r, h) ==
    /\ hist' = h
    /\ book_dir' = NoDir
    /\ toc' = << >>
    /\ item' = 0
    /\ success_count' = 0
    /\ results' = << >>
    /\ IF mode = "file"
       THEN /\ pc' = "finally"
            /\ UNCHANGED <<cur, total_success, dir_ret>>
       ELSE /\ total_success' = IF r = "True" THEN total_success + 1 ELSE total_success
            /\ IF cur < nfiles
               THEN /\ cur' = cur + 1
                    /\ pc' = "extract"
                    /\ UNCHANGED dir_ret
               ELSE /\ dir_ret' = "True"
                    /\ pc' = "finally"
                    /\ UNCHANGED cur

\* An exception leaves process_single_lakebook (and process_directory, which
\* has no handler): control is in the except clause of run().
Raise(stage, h) ==
    /\ hist' = h
    /\ error' = stage
    /\ pc' = "except"

\* extract_lakebook(), lines 36-46, and the test of line 112.
extract_lakebook ==
    /\ pc = "extract"
    /\ \E kind \in TarKinds :
         LET h == [hist EXCEPT ![cur].tar = kind]
             s == reset_scratch(scratch) \cup TopLevel(cur, kind)
         IN  /\ temp_exists' = TRUE
             /\ scratch' = s
             /\ IF kind = "badtar"
                THEN /\ Raise("extract", h)
                     /\ UNCHANGED <<cur, total_success, dir_ret, book_dir, toc, item,
                                    success_count, results>>
                ELSE IF Roots(s) = {}
                THEN /\ Return("False", h)
                     /\ UNCHANGED error
                ELSE /\ \E r \in Roots(s) : book_dir' = r
                     /\ hist' = h
                     /\ pc' = "manifest"
                     /\ UNCHANGED <<cur, total_success, dir_ret, toc, item,
                                    success_count, results, error>>
    /\ UNCHANGED <<attempts, mode, nfiles, output_base_exists, processed_files,
                   output, html_vars>>

DocsPc(t, k) == IF k > Len(t) THEN "summary" ELSE "docs"

\* process_single_lakebook(), lines 115-131: the manifest and the output folder.
read_manifest ==
    /\ pc = "manifest"
    /\ \E m \in ManifestKinds :
         LET h == [hist EXCEPT ![cur].manifest = m]
         IN  /\ output' = [output EXCEPT ![cur] = folder_after_manifest(m, @)]
             /\ CASE manifest_outcome(m) = "return" ->
                       /\ Return("False", h)
                       /\ UNCHANGED error
                  [] manifest_outcome(m) = "raised" ->
                       /\ Raise("manifest", h)
                       /\ UNCHANGED <<cur, total_success, dir_ret, book_dir, toc, item,
                                      success_count, results>>
                  [] OTHER ->
                       /\ \E t \in Tocs :
                            /\ toc' = t
                            /\ pc' = DocsPc(t, 1)
                       /\ item' = 1
                       /\ success_count' = 0
                       /\ results' = << >>
                       /\ hist' = h
                       /\ UNCHANGED <<cur, total_success, dir_ret, book_dir, error>>
    /\ UNCHANGED <<attempts, mode, nfiles, output_base_exists, temp_exists, scratch,
                   processed_files, html_vars>>

\* One iteration of the loop of lines 132-135 on an entry that is not a DOC.
skip_item ==
    /\ pc = "docs"
    /\ toc[item].type # "DOC"
    /\ results' = Append(results, "nondoc")
    /\ item' = item + 1
    /\ pc' = DocsPc(toc, item + 1)
    /\ UNCHANGED <<attempts, mode, nfiles, cur, total_success, dir_ret,
                   output_base_exists, temp_exists, scratch, book_dir, toc,
                   success_count, processed_files, output, error, hist, html_vars>>

\* One iteration of the loop of lines 132-135 on a DOC entry: process_doc().
process_doc ==
    /\ pc = "docs"
    /\ toc[item].type = "DOC"
    /\ \E p \in (IF "url" \in DOMAIN toc[item] THEN PayloadOf(toc[item].url) ELSE {"unread"}) :
       LET e == toc[item]
           o == doc_outcome(e, processed_files, p)
       IN  /\ processed_files' = processed_after(e, processed_files)
           /\ results' = Append(results, o)
           /\ output' = IF o = "converted"
                        THEN [output EXCEPT ![cur].files = write_file(@, e, Transcoded)]
                        ELSE output
           /\ IF o = "raised"
              THEN /\ Raise("doc", hist)
                   /\ UNCHANGED <<item, success_count>>
              ELSE /\ success_count' = IF o = "converted" THEN success_count + 1
                                       ELSE success_count
                   /\ hist' = hist
                   /\ item' = item + 1
                   /\ pc' = DocsPc(toc, item + 1)
                   /\ UNCHANGED error
    /\ UNCHANGED <<attempts, mode, nfiles, cur, total_success, dir_ret,
                   output_base_exists, temp_exists, scratch, book_dir, toc, html_vars>>

\* process_single_lakebook(), lines 137-138.
process_single_done ==
    /\ pc = "summary"
    /\ Return("True", hist)
    /\ UNCHANGED <<attempts, mode, nfiles, output_base_exists, temp_exists, scratch,
                   processed_files, output, error, html_vars>>

\* run(), lines 174-175.
run_except ==
    /\ pc = "except"
    /\ pc' = "finally"
    /\ UNCHANGED <<attempts, mode, nfiles, cur, total_success, dir_ret,
                   output_base_exists, temp_exists, scratch, book_dir, toc, item,
                   success_count, processed_files, output, error, hist, results,
                   html_vars>>

\* run(), lines 176-177: clean_up().
clean_up ==
    /\ pc = "finally"
    /\ temp_exists' = IF temp_exists THEN temp_after_clean_up(temp_exists) ELSE FALSE
    /\ scratch' = IF temp_exists' THEN scratch ELSE {}
    /\ pc' = "done"
    /\ UNCHANGED <<attempts, mode, nfiles, cur, total_success, dir_ret,
                   output_base_exists, book_dir, toc, item, success_count,
                   processed_files, output, error, hist, results, html_vars>>

Next ==
    \/ run_begin
    \/ get_user_input
    \/ run_file
    \/ process_directory
    \/ extract_lakebook
    \/ read_manifest
    \/ skip_item
    \/ process_doc
    \/ process_single_done
    \/ run_except
    \/ clean_up

Spec == Init /\ [][Next]_vars

\* The interpreter runs the next statement; the prompt is answered.
FairSpec == Spec /\ WF_vars(Next)

\* ------------------------------------------- the transcoder on its own
MaxTokens == 3      \* tokens of an HTML source, the scenario of the spec aside

HtmlTokens ==
    {Text("x"), Text(" "), Text("\n"), Text("&lt;"),
     Open("p", << >>), Close("p"), Open("br", << >>),
     Open("strong", << >>), Close("strong"), Open("em", << >>), Close("em"),
     Open("a", <<<<"href", <<"h">>>>>>), Open("a", << >>), Close("a"),
     Open("img", <<<<"src", <<"s">>>>>>), Open("img", <<<<"alt", <<"t">>>>>>),
     Open("h1", <<<<"id", <<"i">>>>>>), Close("h1")}

HtmlInputs == SeqsUpTo(HtmlTokens, MaxTokens) \cup {ScenarioHtml}

HtmlInit ==
    /\ pc = "html"
    /\ attempts = 0
    /\ mode = "none"
    /\ nfiles = 0
    /\ cur = 0
    /\ total_success = 0
    /\ dir_ret = "none"
    /\ output_base_exists = FALSE
    /\ temp_exists = FALSE
    /\ scratch = {}
    /\ book_dir = NoDir
    /\ toc = << >>
    /\ item = 0
    /\ success_count = 0
    /\ processed_files = {}
    /\ output = [a \in Archives |-> [exists |-> FALSE, files |-> {}]]
    /\ error = "none"
    /\ hist = [a \in Archives |-> NoHist]
    /\ results = << >>
    /\ html_content \in HtmlInputs
    /\ markdown = << >>

\* One call of convert_html_to_markdown(html_content).
transcode ==
    /\ pc = "html"
    /\ markdown' = convert_html_to_markdown(html_content)
    /\ pc' = "html_done"
    /\ UNCHANGED <<attempts, mode, nfiles, cur, total_success, dir_ret,
                   output_base_exists, temp_exists, scratch, book_dir, toc, item,
                   success_count, processed_files, output, error, hist, results,
                   html_content>>

HtmlNext == transcode

HtmlSpec == HtmlInit /\ [][HtmlNext]_vars

\* ================================================================== claims
HasUrl(e) == "url" \in DOMAIN e
IsDoc(e) == e.type = "DOC"
ParseErrors == {"badjson", "badmeta", "badyaml"}
InLoop == pc \in {"docs", "summary"}

\* C1: in directory mode, an archive whose $meta.json fails to parse (outer
\* JSON, the "meta" string, the "tocYml" string) has no document converted, and
\* every archive after it in the batch is still handed to
\* process_single_lakebook by the time the run ends.
C1_ManifestFailureContained ==
    (pc = "done" /\ mode = "dir") =>
        \A a \in 1..nfiles :
            hist[a].manifest \in ParseErrors =>
                /\ output[a].files = {}
                /\ \A b \in (a + 1)..nfiles : hist[b].tar # "unread"

\* C2: in directory mode, an archive whose extraction fails (tarfile.open
\* raises, or no non-hidden top-level directory) fails alone: every archive after
\* it is still processed and process_directory reports the aggregate count.
C2_ExtractionFailureContained ==
    (pc = "done" /\ mode = "dir") =>
        \A a \in 1..nfiles :
            hist[a].tar \in {"badtar", "noroot"} =>
                /\ \A b \in (a + 1)..nfiles : hist[b].tar # "unread"
                /\ dir_ret = "True"

\* C3: process_doc skips a DOC entry only if an earlier entry of the same
\* archive has the same identity; identities recorded for an earlier archive
\* play no part.
C3_ProcessedSetPerArchive ==
    \A k \in DOMAIN results :
        results[k] = "skipped" =>
            \E j \in 1..(k - 1) :
                IsDoc(toc[j]) /\ HasUrl(toc[j]) /\ doc_id(toc[j]) = doc_id(toc[k])

DocItems(t) == {k \in DOMAIN t : IsDoc(t[k])}

\* Every DOC entry has its url and a payload with doc.body; identities and
\* sanitized titles are pairwise distinct.
WellFormed(t) ==
    /\ \A k \in DocItems(t) : HasUrl(t[k]) /\ PayloadOf(t[k].url) = {"ok"}
    /\ \A j, k \in DocItems(t) :
           j # k => /\ doc_id(t[j]) # doc_id(t[k])
                    /\ safe_title(doc_title(t[j])) # safe_title(doc_title(t[k]))

\* C4: once a well-formed archive with N DOC entries of pairwise distinct
\* identities and sanitized titles has been processed, its output folder holds
\* exactly N Markdown files.
C4_OneFilePerDocument ==
    (pc = "summary" /\ WellFormed(toc)) =>
        Cardinality(output[cur].files) = Cardinality(DocItems(toc))

SameUuid(t, u) == {k \in DocItems(t) : HasUrl(t[k]) /\ "uuid" \in DOMAIN t[k] /\ t[k].uuid = u}

First(S) == CHOOSE k \in S : \A j \in S : k <= j

\* C5: when the TOC of an archive lists several DOC entries with one uuid (the
\* first of them with a readable payload), exactly one of them is converted, and
\* process_doc returns False for every later one without writing.
C5_SharedUuidOneFile ==
    pc = "summary" =>
        \A u \in Uuids :
            LET S == SameUuid(toc, u)
            IN  (Cardinality(S) >= 2 /\ PayloadOf(toc[First(S)].url) = {"ok"}) =>
                    /\ Cardinality({k \in S : results[k] = "converted"}) = 1
                    /\ \A k \in S \ {First(S)} : results[k] = "skipped"

\* The DOC entry the loop is at has a url, an identity not yet processed and a
\* payload that is missing or has no doc.body.
AtUnreadablePayload ==
    /\ pc = "docs"
    /\ IsDoc(toc[item])
    /\ HasUrl(toc[item])
    /\ doc_id(toc[item]) \notin processed_files
    /\ "ok" \notin PayloadOf(toc[item].url)

C6_Counts ==
    /\ InLoop => success_count = Count(results, "converted")
    /\ pc = "summary" => Len(results) = Len(toc)
    /\ (pc = "except" /\ error = "doc") => ~HasUrl(toc[item])

C6_Step ==
    AtUnreadablePayload =>
        /\ output' = output
        /\ results' = Append(results, "failed")
        /\ success_count' = success_count
        /\ item' = item + 1
        /\ pc' = DocsPc(toc, item + 1)
        /\ error' = error

\* C6: a DOC entry whose payload file is missing or lacks doc.body fails alone:
\* process_doc returns False and writes nothing, the loop goes on to the next
\* entry of the TOC, and the archive's success count is the number of entries
\* converted.
C6_PayloadFailureContained == [](C6_Counts) /\ [][C6_Step]_vars

C6_Witness == pc = "summary" /\ results = <<"failed", "converted">>

\* C7: every run ends, after clean_up, with .laketmp removed: after a plain
\* run, after failed documents or archives, after an exception at any stage.
C7_CleanupAlways == <>[](pc = "done" /\ ~temp_exists /\ scratch = {})

C7_Witness ==
    /\ pc = "done"
    /\ error = "manifest"
    /\ cur = 2
    /\ ~temp_exists

Folders == {a \in Archives : output[a].exists}

\* C8: in directory mode, no matching archive means process_directory returns
\* False and no output folder is made; with K archives at most K folders are
\* made, and only for archives whose manifest parsed.
C8_FoldersOnlyForParsedManifests ==
    mode = "dir" =>
        /\ (nfiles = 0 /\ pc \in {"finally", "done"}) => dir_ret = "False"
        /\ nfiles = 0 => Folders = {}
        /\ Cardinality(Folders) <= nfiles
        /\ \A a \in Folders : hist[a].manifest = "ok"

C8_Witness ==
    /\ pc = "done"
    /\ mode = "dir"
    /\ nfiles = 2
    /\ Folders = {2}
    /\ hist[1].manifest = "missing"

NoMarkup(str) == \A k \in DOMAIN str : str[k] \notin {"<", "</", "/>"}

Squeeze(str) == SelectSeq(str, LAMBDA a : a \notin Whitespace)

\* Hello **world**[link](http://x)![image](http://y/z.png)
ScenarioMarkdown ==
    <<"Hello", " ", "**", "world", "**", "[", "link", "](", "http://x", ")",
      "![", "image", "](", "http://y/z.png", ")">>

\* C9: the scenario body transcodes, whitespace aside, to
\* Hello **world**[link](http://x)![image](http://y/z.png), with no p, strong, a or
\* img markup left.
C9_ScenarioTranscoded ==
    (pc = "html_done" /\ html_content = ScenarioHtml) =>
        /\ NoMarkup(markdown)
        /\ Squeeze(markdown) = Squeeze(ScenarioMarkdown)

\* C10: whenever a root directory has been selected for an archive, .laketmp
\* holds only what was extracted from that archive, and the root is one of those
\* entries: nothing of an earlier archive (or an earlier run) is left.
C10_ScratchOfCurrentArchive ==
    pc \in {"manifest", "docs", "summary"} =>
        /\ \A x \in scratch : x.arch = cur
        /\ book_dir \in scratch
        /\ book_dir.arch = cur

C10_Witness ==
    /\ pc = "manifest"
    /\ cur = 2
    /\ hist[1].tar = "ok"

====
